---- MODULE Spec2Model ----
(***************************************************************************)
(* ESP8266IRRecord (src/main.cpp): setup(), loop() and displayResults().  *)
(*                                                                         *)
(* Time.  millis() is an unsigned long (32 bits on the ESP8266).  A time   *)
(* is a pair <<hi, lo>> of 16-bit limbs, value hi * 2^16 + lo, so that the *)
(* full 32-bit width is kept.  The wall clock `now` is the                 *)
(* number of milliseconds since boot and is not truncated; millis() is its *)
(* low 32 bits.                                                            *)
(*                                                                         *)
(* Text.  A printed line is a sequence of strings: a fixed label followed  *)
(* by one string per formatted character.                                  *)
(***************************************************************************)
EXTENDS Integers, Sequences, FiniteSets, TLC

\* Number of loop() iterations explored.
MaxLoops == 3

\* Number of loop() iterations explored with byte-wide inputs.
MaxByteLoops == 1

----------------------------------------------------------------------------
\* Program constants

Limb == 65536
CLEAR_AFTER_MILLISECONDS == 2000
SCREEN_WIDTH == 128
SCREEN_HEIGHT == 64
TEXT_SIZE_SMALL == 1
TEXT_SIZE_MEDIUM == 2
SSD1306_BLACK == 0
SSD1306_WHITE == 1
kCaptureBufferSize == 4096

----------------------------------------------------------------------------
\* Unsigned long arithmetic and the wall clock

Zero == <<0, 0>>

\* a + d on the wall clock (no truncation).
AddTime(a, d) ==
    LET lo == a[2] + d[2]
    IN  <<a[1] + d[1] + (lo \div Limb), lo % Limb>>

\* a - b on the wall clock, for a >= b.
SubTime(a, b) ==
    IF a[2] >= b[2] THEN <<a[1] - b[1], a[2] - b[2]>>
                    ELSE <<a[1] - b[1] - 1, a[2] + Limb - b[2]>>

\* millis(): the wall clock truncated to an unsigned long.
millis(t) == <<t[1] % Limb, t[2]>>

\* a - b on unsigned long: the difference modulo 2^32.
SubU32(a, b) ==
    LET borrow == IF a[2] >= b[2] THEN 0 ELSE 1
    IN  <<(a[1] - b[1] - borrow) % Limb, (a[2] - b[2]) % Limb>>

\* x > n for an unsigned long x and a constant n < 2^16.
GtU32(x, n) == x[1] > 0 \/ x[2] > n

\* x >= n, the off-by-one variant of the comparison.
GeU32(x, n) == x[1] > 0 \/ x[2] >= n

----------------------------------------------------------------------------
\* printf conversions

HexChars == <<"0", "1", "2", "3", "4", "5", "6", "7",
              "8", "9", "A", "B", "C", "D", "E", "F">>

LowerHexChars == <<"0", "1", "2", "3", "4", "5", "6", "7",
                   "8", "9", "a", "b", "c", "d", "e", "f">>

DecChars == <<"0", "1", "2", "3", "4", "5", "6", "7", "8", "9">>

RECURSIVE Digits(_, _, _)
\* The digits of v in the given base, most significant first, no padding.
Digits(v, base, chars) ==
    IF v < base THEN <<chars[v + 1]>>
    ELSE Append(Digits(v \div base, base, chars), chars[(v % base) + 1])

RECURSIVE ZeroPad(_, _)
\* The 0 flag with a minimum field width w.
ZeroPad(s, w) == IF Len(s) >= w THEN s ELSE ZeroPad(<<"0">> \o s, w)

\* %02X, %08X
FmtHex(v, w) == ZeroPad(Digits(v, 16, HexChars), w)

\* %d of a non-negative value
FmtDec(v) == Digits(v, 10, DecChars)

\* "0x%02X%02X (%d)" with v, complement, v swapped for lower-case digits
\* and a 0x100 complement
FmtPairSlip(label, v) ==
    <<label, "0x">> \o ZeroPad(Digits(v, 16, LowerHexChars), 2)
                    \o ZeroPad(Digits((256 - v) % 256, 16, LowerHexChars), 2)
                    \o <<" (">> \o FmtDec(v) \o <<")">>

\* "<label>0x%02X%02X (%d)\n" applied to v, (0xFF - v), v
FmtPair(label, v) ==
    <<label, "0x">> \o FmtHex(v, 2) \o FmtHex(255 - v, 2)
                    \o <<" (">> \o FmtDec(v) \o <<")">>

\* typeToString(decode_type, repeat)
typeToString(type, repeat) ==
    IF repeat THEN <<type, " (Repeat)">> ELSE <<type>>

\* resultToHexidecimal(&results): "0x" and the value in upper-case hex
resultToHexidecimal(res) == <<"0x">> \o Digits(res.value, 16, HexChars)

----------------------------------------------------------------------------
\* Display calls

Call(name, args, line) == [op |-> name, args |-> args, text |-> line]

fillScreen(c) == Call("fillScreen", <<c>>, <<>>)
setCursor(x, y) == Call("setCursor", <<x, y>>, <<>>)
setTextSize(s) == Call("setTextSize", <<s>>, <<>>)
setTextColor(c) == Call("setTextColor", <<c>>, <<>>)
print(line) == Call("print", <<>>, line)
fillRect(x, y, w, h, c) == Call("fillRect", <<x, y, w, h, c>>, <<>>)
flush == Call("display", <<>>, <<>>)

----------------------------------------------------------------------------
\* Decode results

\* decode_results g_DecodeResults as a zero-initialised global.
NoResult ==
    [decode_type |-> "UNUSED", value |-> 0, address |-> 0, command |-> 0,
     repeat |-> FALSE, overflow |-> FALSE]

\* What the receiver can hand to loop(): an NEC frame (the example of the
\* source's comments, 0x20DF40BF) and a frame without address and command.
Frames ==
    { [decode_type |-> "NEC", value |-> 551502015, address |-> 4, command |-> 2],
      [decode_type |-> "UNKNOWN", value |-> 4660, address |-> 0, command |-> 0] }

WithFlags(f, rep, ovf) ==
    [decode_type |-> f.decode_type, value |-> f.value, address |-> f.address,
     command |-> f.command, repeat |-> rep, overflow |-> ovf]

\* Every frame as a new result; the NEC frame also with the overflow flag
\* and as a repeat.
Results ==
    { WithFlags(f, FALSE, FALSE) : f \in Frames }
    \cup
    { WithFlags(f, rep, ovf) :
        f \in { g \in Frames : g.decode_type = "NEC" },
        rep \in BOOLEAN, ovf \in BOOLEAN }

\* Frames in which the address and the command each take every 8-bit value
\* (only the formatting of the two fields is followed, the code value is
\* left as it is).
ByteFrames ==
    { [decode_type |-> "NEC", value |-> 551502015, address |-> v,
       command |-> 255 - v] : v \in 0..255 }
    \cup
    { [decode_type |-> "NEC", value |-> 551502015, address |-> 0, command |-> 0] }

ByteResults == { WithFlags(f, FALSE, FALSE) : f \in ByteFrames }

\* Time between the end of one handler and the start of the next loop():
\* a moment, exactly the threshold, just above it, and 2^32 - 2001 ms.
IdleDeltas == { <<0, 400>>, <<0, 2000>>, <<0, 2001>>, <<65535, 63535>> }

\* Time from the start of loop() to the millis() call that ends displayResults.
RenderDurations == { <<0, 25>>, <<0, 30>> }

\* Time from boot to the end of setup() (serial wait, display start-up).
SetupDurations == { <<0, 100>>, <<0, 1500>> }

----------------------------------------------------------------------------
\* displayResults

\* The clear condition with >= in place of >.
ClearDueAtThreshold(cur, prev) ==
    GeU32(SubU32(cur, prev), CLEAR_AFTER_MILLISECONDS)

\* (g_currentMillis-g_previousDisplayMillis) > CLEAR_AFTER_MILLISECONDS
ClearDue(cur, prev) ==
    GtU32(SubU32(cur, prev), CLEAR_AFTER_MILLISECONDS)

\* The stamp taken from g_currentMillis, the start of the iteration.
StampLoopStart(cur, tEnd) == cur

\* g_previousDisplayMillis = millis(); at the end of displayResults
Stamp(cur, tEnd) == millis(tEnd)

\* The lines displayResults prints for a result.
ResultLines(res) ==
    << <<"Protocol: ">> \o typeToString(res.decode_type, res.repeat),
       <<"Code    : ">> \o resultToHexidecimal(res) >>
    \o (IF res.address > 0 THEN <<FmtPair("Address : ", res.address)>> ELSE <<>>)
    \o (IF res.command > 0 THEN <<FmtPair("Command : ", res.command)>> ELSE <<>>)

\* displayResults(g_DecodeResults), entered with the display holding the
\* lines txt and the indicator ind, its final millis() call made at tEnd.
displayResults(cur, prev, res, txt, ind, tEnd) ==
    LET clear == ClearDue(cur, prev)
        lines == ResultLines(res)
    IN  [ ops |-> (IF clear
                     THEN <<fillScreen(SSD1306_BLACK), setCursor(0, 0)>>
                     ELSE <<>>)
                  \o <<setTextSize(TEXT_SIZE_SMALL), setTextColor(SSD1306_WHITE)>>
                  \o [i \in 1..Len(lines) |-> print(lines[i])]
                  \o <<flush>>,
          text |-> (IF clear THEN <<>> ELSE txt) \o lines,
          indicator |-> (IF clear THEN FALSE ELSE ind),
          prev |-> Stamp(cur, tEnd),
          elapsed |-> SubU32(cur, prev) ]

----------------------------------------------------------------------------
\* loop

\* value >> 32 and value & 0xFFFFFFFF (values below 2^31 are modelled)
High32(v) == (v \div Limb) \div Limb
Low32(v) == ((v \div Limb) % Limb) * Limb + (v % Limb)

\* The Serial output of the branch of loop() that handles a result, up to
\* the call of displayResults.  kTolerancePercentage is kTolerance, so the
\* tolerance line is never printed; the A/C description is empty for the
\* frames modelled.
SerialReport(res) ==
    << <<"[====== ESP8266IRRecord - BEGIN ======]">> >>
    \o (IF res.overflow
          THEN << <<"D_WARN_BUFFERFULL ">> \o FmtDec(kCaptureBufferSize) >>
          ELSE <<>>)
    \o << <<"[resultToHumanReadableBasic]:">>,
          <<"resultToHumanReadableBasic ">>
             \o typeToString(res.decode_type, res.repeat)
             \o resultToHexidecimal(res),
          <<"[resultsToSourceCode]:">>,
          <<"resultToSourceCode ">> \o resultToHexidecimal(res) >>
    \o (IF res.address # 0 THEN <<FmtPair("Address: ", res.address)>> ELSE <<>>)
    \o (IF res.command # 0 THEN <<FmtPair("Command: ", res.command)>> ELSE <<>>)
    \o (IF res.value # 0
          THEN << <<"Value  : 0x">> \o FmtHex(High32(res.value), 8)
                                    \o FmtHex(Low32(res.value), 8) >>
          ELSE <<>>)

\* The condition without the repeat test.
HandlesAnyDecode(got, res) == got

\* irrecv.decode(&g_DecodeResults) && !g_DecodeResults.repeat
Handles(got, res) == got /\ ~res.repeat

\* The branch that handles a result, with overflowed results dropped after
\* the warning.
HandleResultDropsOverflow(cur, prev, res, txt, ind, tEnd) ==
    IF res.overflow
      THEN [ res |-> res, branch |-> "render", ops |-> <<>>,
             serial |-> SerialReport(res), text |-> txt, indicator |-> ind,
             prev |-> prev, elapsed |-> SubU32(cur, prev) ]
      ELSE LET shown == displayResults(cur, prev, res, txt, ind, tEnd)
           IN  [ res |-> res, branch |-> "render", ops |-> shown.ops,
                 serial |-> SerialReport(res)
                     \o << <<"[====== ESP8266IRRecord - END ======]">> >>,
                 text |-> shown.text, indicator |-> shown.indicator,
                 prev |-> shown.prev, elapsed |-> shown.elapsed ]

\* The branch of loop() that handles a result.
HandleResult(cur, prev, res, txt, ind, tEnd) ==
    LET shown == displayResults(cur, prev, res, txt, ind, tEnd)
    IN  [ res |-> res, branch |-> "render", ops |-> shown.ops,
          serial |-> SerialReport(res)
                     \o << <<"[====== ESP8266IRRecord - END ======]">> >>,
          text |-> shown.text, indicator |-> shown.indicator,
          prev |-> shown.prev, elapsed |-> shown.elapsed ]

\* The else branch of loop(): the indicator.
Idle(cur, prev, res, txt, ind) ==
    LET due == GtU32(SubU32(cur, prev), CLEAR_AFTER_MILLISECONDS)
    IN  [ res |-> res, branch |-> "idle",
          ops |-> (IF due
                     THEN <<fillRect(SCREEN_WIDTH - 2, SCREEN_HEIGHT - 2, 2, 2,
                                     SSD1306_WHITE), flush>>
                     ELSE <<>>),
          serial |-> <<>>, text |-> txt, indicator |-> (ind \/ due),
          prev |-> prev, elapsed |-> SubU32(cur, prev) ]

\* loop() entered at t0 with g_currentMillis = millis(): decode() returns
\* got and, when it does, has stored r in g_DecodeResults.
loop(cur, prev, res0, txt, ind, got, r, tEnd) ==
    LET res == IF got THEN r ELSE res0
    IN  IF Handles(got, res)
          THEN HandleResult(cur, prev, res, txt, ind, tEnd)
          ELSE Idle(cur, prev, res, txt, ind)

----------------------------------------------------------------------------
\* State

VARIABLES
    pc,                      \* "setup", "loop" or "halted" (the for(;;))
    now,                     \* wall clock, ms since boot
    g_currentMillis,
    g_previousDisplayMillis,
    g_DecodeResults,
    text,                    \* lines on the display since the last fillScreen
    indicator,               \* the 2x2 square is on the display
    ops,                     \* display calls of the last handler run
    serial,                  \* Serial lines of the last handler run
    loops,                   \* loop() iterations run
    beginOk,                 \* what display.begin() returned
    decoded,                 \* decode() returned true in the last iteration
    branch,                  \* branch the last iteration took
    elapsed,                 \* the difference the last iteration compared
    startedAt,               \* wall clock at the start of the last iteration
    updatedAt,               \* wall clock of the last startup screen or render
    priorUpdate,             \* updatedAt as the last iteration found it
    rendered,                \* displayResults has run
    priorRender,             \* rendered as the last iteration found it
    flagged,                 \* indicator drawn since the last render
    priorFlagged             \* flagged as the last iteration found it

vars == <<pc, now, g_currentMillis, g_previousDisplayMillis, g_DecodeResults,
          text, indicator, ops, serial, loops, beginOk, decoded, branch,
          elapsed, startedAt, updatedAt, priorUpdate, rendered, priorRender,
          flagged, priorFlagged>>

history == <<decoded, branch, elapsed, startedAt, priorUpdate, priorRender,
             flagged, priorFlagged>>

Init ==
    /\ pc = "setup"
    /\ now = Zero
    /\ g_currentMillis = Zero
    /\ g_previousDisplayMillis = Zero
    /\ g_DecodeResults = NoResult
    /\ text = <<>>
    /\ indicator = FALSE
    /\ ops = <<>>
    /\ serial = <<>>
    /\ loops = 0
    /\ beginOk = TRUE
    /\ decoded = FALSE
    /\ branch = "none"
    /\ elapsed = Zero
    /\ startedAt = Zero
    /\ updatedAt = Zero
    /\ priorUpdate = Zero
    /\ rendered = FALSE
    /\ priorRender = FALSE
    /\ flagged = FALSE
    /\ priorFlagged = FALSE

----------------------------------------------------------------------------
\* setup

WaitingLines == << <<"Waiting">>, <<"for">>, <<"IR Code...">> >>

WaitingScreen ==
    << fillScreen(SSD1306_BLACK), setTextSize(TEXT_SIZE_MEDIUM),
       setTextColor(SSD1306_WHITE), setCursor(0, 0),
       print(<<"Waiting\nfor\nIR Code...">>), flush >>

\* display.begin() fails, and setup() goes on to the waiting screen.
SetupFailsAndGoesOn(d) ==
    /\ pc' = "loop"
    /\ now' = AddTime(now, d)
    /\ beginOk' = FALSE
    /\ serial' = << <<"D_STR_IRRECVDUMP_STARTUP">>,
                    <<"SSD1306 allocation FAILED">> >>
    /\ ops' = WaitingScreen
    /\ text' = WaitingLines
    /\ updatedAt' = AddTime(now, d)
    /\ UNCHANGED <<g_currentMillis, g_previousDisplayMillis, g_DecodeResults,
                   indicator, loops, rendered, history>>

\* display.begin() fails: the message, then for(;;);
SetupFails(d) ==
    /\ pc' = "halted"
    /\ now' = AddTime(now, d)
    /\ beginOk' = FALSE
    /\ serial' = << <<"D_STR_IRRECVDUMP_STARTUP">>,
                    <<"SSD1306 allocation FAILED">> >>
    /\ UNCHANGED <<g_currentMillis, g_previousDisplayMillis, g_DecodeResults,
                   text, indicator, ops, loops, updatedAt, rendered, history>>

\* setup() that also records the waiting screen as a display update.
SetupSucceedsAndStamps(d) ==
    /\ pc' = "loop"
    /\ now' = AddTime(now, d)
    /\ beginOk' = TRUE
    /\ serial' = << <<"D_STR_IRRECVDUMP_STARTUP">>,
                    <<"SSD1306 allocation SUCCEEDED">> >>
    /\ ops' = WaitingScreen
    /\ text' = WaitingLines
    /\ updatedAt' = AddTime(now, d)
    /\ g_previousDisplayMillis' = millis(AddTime(now, d))
    /\ UNCHANGED <<g_currentMillis, g_DecodeResults,
                   indicator, loops, rendered, history>>

\* display.begin() succeeds: the waiting screen is drawn and flushed.
SetupSucceeds(d) ==
    /\ pc' = "loop"
    /\ now' = AddTime(now, d)
    /\ beginOk' = TRUE
    /\ serial' = << <<"D_STR_IRRECVDUMP_STARTUP">>,
                    <<"SSD1306 allocation SUCCEEDED">> >>
    /\ ops' = WaitingScreen
    /\ text' = WaitingLines
    /\ updatedAt' = AddTime(now, d)
    /\ UNCHANGED <<g_currentMillis, g_previousDisplayMillis, g_DecodeResults,
                   indicator, loops, rendered, history>>

\* setup(), finishing d ms after boot.
Setup ==
    /\ pc = "setup"
    /\ \E d \in SetupDurations :
          \/ SetupSucceeds(d)
          \/ SetupFails(d)

----------------------------------------------------------------------------
\* One iteration of loop()

\* loop() starts d ms after the previous handler ended; decode() returns got
\* with result r; a render reaches its final millis() dur ms into the iteration.
Loop(d, got, r, dur) ==
    /\ pc = "loop"
    /\ loops < MaxLoops
    /\ LET t0 == AddTime(now, d)
           tEnd == AddTime(t0, dur)
       IN  \E out \in { loop(millis(t0), g_previousDisplayMillis, g_DecodeResults,
                             text, indicator, got, r, tEnd) } :
           LET shown == out.branch = "render" IN
           /\ g_currentMillis' = millis(t0)
           /\ g_previousDisplayMillis' = out.prev
           /\ g_DecodeResults' = out.res
           /\ text' = out.text
           /\ indicator' = out.indicator
           /\ ops' = out.ops
           /\ serial' = out.serial
           /\ now' = IF shown THEN tEnd ELSE t0
           /\ decoded' = got
           /\ branch' = out.branch
           /\ elapsed' = out.elapsed
           /\ startedAt' = t0
           /\ priorUpdate' = updatedAt
           /\ updatedAt' = IF shown /\ out.ops # <<>> THEN tEnd ELSE updatedAt
           /\ priorRender' = rendered
           /\ rendered' = (rendered \/ (shown /\ out.ops # <<>>))
           /\ priorFlagged' = flagged
           /\ flagged' = IF shown THEN FALSE
                         ELSE flagged \/ (rendered /\ out.ops # <<>>)
    /\ loops' = loops + 1
    /\ UNCHANGED <<pc, beginOk>>

\* loop() with the receiver's inputs: a new result, a repeat, or nothing.
LoopStep ==
    \E d \in IdleDeltas :
        \/ \E r \in Results, dur \in RenderDurations :
              ~r.repeat /\ Loop(d, TRUE, r, dur)
        \/ \E r \in Results : r.repeat /\ Loop(d, TRUE, r, Zero)
        \/ Loop(d, FALSE, g_DecodeResults, Zero)

\* loop() with a new result whose address and command cover all byte values.
ByteStep ==
    /\ loops < MaxByteLoops
    /\ \E r \in ByteResults, d \in {<<0, 2000>>, <<0, 2001>>} :
          Loop(d, TRUE, r, <<0, 25>>)

Next == Setup \/ LoopStep

Spec == Init /\ [][Next]_vars

NextBytes == Setup \/ ByteStep

SpecBytes == Init /\ [][NextBytes]_vars

----------------------------------------------------------------------------
\* Vocabulary of the properties

\* The state shows a loop() iteration.
Ran == loops > 0

\* The last iteration handled a new result (the branch calling displayResults).
Rendered == Ran /\ branch = "render"

\* The last iteration took the else branch.
Idled == Ran /\ branch = "idle"

\* The wall-clock time t is more than n ms (n < 2^16).
MoreThan(t, n) == t[1] > 0 \/ t[2] > n

\* Wall-clock time from the last display update (startup screen or render)
\* to the start of the last iteration.
SinceUpdate == SubTime(startedAt, priorUpdate)

\* Wall-clock time from the end of the last render to the start of the last
\* iteration; from boot while nothing has been rendered.
SinceRender == IF priorRender THEN SubTime(startedAt, priorUpdate) ELSE startedAt

Printed(calls) == { calls[i].text : i \in { j \in DOMAIN calls : calls[j].op = "print" } }

Lines(log) == { log[i] : i \in DOMAIN log }

\* The calls start with the screen clear and the cursor reset, and nothing
\* is printed before them.
ClearsFirst(calls) ==
    /\ Len(calls) >= 2
    /\ calls[1] = fillScreen(SSD1306_BLACK)
    /\ calls[2] = setCursor(0, 0)

\* No call clears the screen or moves the cursor.
NoClear(calls) ==
    \A i \in DOMAIN calls : calls[i].op \notin {"fillScreen", "setCursor"}

\* No call prints text.
NoText(calls) == \A i \in DOMAIN calls : calls[i].op # "print"

IsPrefix(a, b) == Len(a) <= Len(b) /\ SubSeq(b, 1, Len(a)) = a

TheIndicator == fillRect(126, 62, 2, 2, SSD1306_WHITE)

WarnLine == <<"D_WARN_BUFFERFULL ", "4", "0", "9", "6">>

\* The pair as the specification writes it: 0x, V and 0xFF - V as two
\* upper-case hex digits each, V in decimal in parentheses.
PairText(label, v) ==
    <<label, "0x", HexChars[(v \div 16) + 1], HexChars[(v % 16) + 1],
      HexChars[((255 - v) \div 16) + 1], HexChars[((255 - v) % 16) + 1], " (">>
    \o (IF v < 10 THEN <<DecChars[v + 1]>>
        ELSE IF v < 100 THEN <<DecChars[(v \div 10) + 1], DecChars[(v % 10) + 1]>>
        ELSE <<DecChars[(v \div 100) + 1], DecChars[((v \div 10) % 10) + 1],
               DecChars[(v % 10) + 1]>>)
    \o <<")">>

WithLabel(lines, label) == { l \in lines : l[1] = label }

----------------------------------------------------------------------------
\* C1: a new (non-repeat) result handled more than 2000 ms after the last
\* display update (the end of the last render) clears the screen and resets
\* the cursor before it prints any line of the result, in the same iteration.
C1_StaleResultClearsFirst ==
    (Rendered /\ priorRender /\ MoreThan(SinceUpdate, CLEAR_AFTER_MILLISECONDS))
        => (ClearsFirst(ops) /\ text = ResultLines(g_DecodeResults))

\* C2 as stated: a new result handled at most 2000 ms after the last display
\* update, the startup screen counting as one, is rendered without clearing
\* and the prior content stays.
C2_FreshResultAppends ==
    [][ (loops' = loops + 1 /\ branch' = "render"
         /\ ~MoreThan(SinceUpdate', CLEAR_AFTER_MILLISECONDS))
        => (NoClear(ops') /\ IsPrefix(text, text') /\ indicator' = indicator) ]_vars

\* C2 amended: a new result handled at most 2000 ms after the end of the
\* last render (after boot, while nothing has been rendered) is rendered
\* without clearing, the prior content staying and the result's lines
\* appended to it.
C2_FreshSinceRenderAppends ==
    [][ (loops' = loops + 1 /\ branch' = "render"
         /\ ~MoreThan(SinceRender', CLEAR_AFTER_MILLISECONDS))
        => (/\ NoClear(ops')
            /\ text' = text \o ResultLines(g_DecodeResults')
            /\ indicator' = indicator) ]_vars

\* A result rendered exactly 2000 ms after the previous render, appended.
C2_Witness ==
    /\ Rendered /\ priorRender
    /\ SinceUpdate = <<0, 2000>>
    /\ NoClear(ops)
    /\ Len(text) > Len(ResultLines(g_DecodeResults))

\* C3: an iteration that handles no new result more than 2000 ms after the
\* last display update (the end of the last render) draws the 2x2 white
\* indicator at (126, 62) exactly once, and clears nothing and prints nothing.
C3_StaleIdleDrawsIndicator ==
    (Idled /\ priorRender /\ MoreThan(SinceUpdate, CLEAR_AFTER_MILLISECONDS))
        => (/\ Cardinality({i \in DOMAIN ops : ops[i] = TheIndicator}) = 1
            /\ NoClear(ops) /\ NoText(ops)
            /\ indicator)

\* C4: once the indicator has been drawn since the last render, the next
\* new result clears the screen before it is rendered, whatever time has
\* passed in between.
C4_IndicatorMeansNextClears ==
    (Rendered /\ priorFlagged) => ClearsFirst(ops)

\* C5: an iteration whose decode() succeeds with the repeat flag set does
\* not call displayResults: nothing is cleared, no text is printed, the
\* display text and g_previousDisplayMillis stay as they were.
C5_RepeatNeverRenders ==
    [][ (loops' = loops + 1 /\ decoded' /\ g_DecodeResults'.repeat)
        => (/\ branch' = "idle"
            /\ NoClear(ops') /\ NoText(ops')
            /\ text' = text
            /\ serial' = <<>>
            /\ rendered' = rendered
            /\ g_previousDisplayMillis' = g_previousDisplayMillis) ]_vars

\* A repeat was decoded after a render, the rendered text still displayed.
C5_Witness ==
    /\ Ran /\ decoded /\ g_DecodeResults.repeat
    /\ rendered /\ branch = "idle"
    /\ Len(text) >= 2

\* C6 as stated: every rendered result shows, for its address V and for its
\* command V in 0..255, the pair 0x, V, 0xFF - V, (V).
C6_EveryByteShowsPair ==
    Rendered
        => (/\ PairText("Address : ", g_DecodeResults.address) \in Printed(ops)
            /\ PairText("Command : ", g_DecodeResults.command) \in Printed(ops))

\* C6 amended: every rendered result shows, for its address V and for its
\* command V in 1..255, exactly the pair 0x, V, 0xFF - V, (V), on the
\* display and on Serial; for V = 0 no line is shown for that field.
C6_NonZeroByteShowsPair ==
    Rendered
        => LET a == g_DecodeResults.address
               c == g_DecodeResults.command
           IN  /\ WithLabel(Printed(ops), "Address : ")
                    = (IF a = 0 THEN {} ELSE {PairText("Address : ", a)})
               /\ WithLabel(Printed(ops), "Command : ")
                    = (IF c = 0 THEN {} ELSE {PairText("Command : ", c)})
               /\ WithLabel(Lines(serial), "Address: ")
                    = (IF a = 0 THEN {} ELSE {PairText("Address: ", a)})
               /\ WithLabel(Lines(serial), "Command: ")
                    = (IF c = 0 THEN {} ELSE {PairText("Command: ", c)})

\* Address 0x04 rendered as 0x04FB (4).
C6_Witness ==
    /\ Rendered
    /\ g_DecodeResults.address = 4
    /\ <<"Address : ", "0x", "0", "4", "F", "B", " (", "4", ")">> \in Printed(ops)

\* C7: when display.begin() fails, setup() logs the failure and halts: no
\* loop() iteration runs, no decode is processed, and no draw or flush call
\* reaches the display.
C7_DisplayFailureHalts ==
    (pc # "setup" /\ ~beginOk)
        => (/\ pc = "halted"
            /\ serial[Len(serial)] = <<"SSD1306 allocation FAILED">>
            /\ loops = 0 /\ ~decoded /\ branch = "none"
            /\ g_DecodeResults = NoResult
            /\ ops = <<>> /\ text = <<>> /\ ~indicator)

\* display.begin() has failed and the program sits in for(;;).
C7_Witness ==
    /\ ~beginOk /\ pc = "halted"
    /\ <<"SSD1306 allocation FAILED">> \in Lines(serial)

\* C8: a new result with the overflow flag is rendered exactly as the same
\* result without the flag would be from the same state: same display
\* calls, same display content, same g_previousDisplayMillis; the Serial
\* output differs by the buffer-full warning alone.
C8_OverflowOnlyLogs ==
    [][ (loops' = loops + 1 /\ decoded' /\ ~g_DecodeResults'.repeat)
        => \A alt \in { loop(g_currentMillis', g_previousDisplayMillis,
                             g_DecodeResults, text, indicator, TRUE,
                             [g_DecodeResults' EXCEPT !.overflow = ~@], now') } :
              LET flag == g_DecodeResults'.overflow
                  over == IF flag THEN serial' ELSE alt.serial
                  plain == IF flag THEN alt.serial ELSE serial'
              IN  /\ branch' = "render" /\ alt.branch = "render"
                  /\ ~NoText(ops')
                  /\ alt.ops = ops'
                  /\ alt.text = text'
                  /\ alt.indicator = indicator'
                  /\ alt.prev = g_previousDisplayMillis'
                  /\ WarnLine \notin Lines(plain)
                  /\ over = <<plain[1], WarnLine>>
                              \o SubSeq(plain, 2, Len(plain)) ]_vars

\* An overflowed result has been logged with the warning and rendered.
C8_Witness ==
    /\ Rendered /\ g_DecodeResults.overflow
    /\ WarnLine \in Lines(serial)
    /\ ~NoText(ops)
    /\ g_previousDisplayMillis = millis(now)

\* C9: the difference compared in an iteration equals the wall-clock time
\* from the end of the last render to the start of the iteration whenever
\* that time is below 2^32 ms, also across a wrap of millis().
C9_ElapsedIsTrueTime ==
    (Ran /\ priorRender /\ SinceUpdate[1] < Limb) => elapsed = SinceUpdate

\* millis() wrapped between the render and the iteration that compares.
C9_Witness ==
    /\ Ran /\ priorRender
    /\ priorUpdate[1] < Limb /\ startedAt[1] >= Limb
    /\ SinceUpdate[1] < Limb
    /\ elapsed = SinceUpdate

====
